---- MODULE Spec2Model ----
(***************************************************************************)
(* Rule 6 of 2.0_reproducibility.ipynb: seeding Python's module-global     *)
(* generator and drawing from it.                                          *)
(*                                                                         *)
(*   initialize(s)  is  random.seed(s)                                     *)
(*   next()         is  random.random()                                    *)
(*   draw(n)        is  [random.random() for _ in range(n)]                *)
(*                                                                         *)
(* The notebook runs on a Python 2.7 kernel.  The generator core of the    *)
(* random module (a 32-bit word generator, two words per float) is kept    *)
(* in structure and reduced in width: words have WordBits bits, a float    *)
(* is the numerator of a fraction over Den.  Seeds are small integers of   *)
(* both signs; the notebook's literal 19145822646 is one positive seed.    *)
(***************************************************************************)
EXTENDS Integers, Sequences, FiniteSets, TLC

\* ---------------------------------------------------------------- bounds
WordBits == 4
MaxSeed == 1
MaxN == 2
MaxLen == 4
MaxParts == 3

Kernels == {1, 2}
Callers == {1, 2}
Seeds == (0 - MaxSeed)..MaxSeed
Counts == 0..MaxN
Args == (0 - MaxN)..MaxN

\* ------------------------------------------------ the generator (pure)
Pow2(e) == 2 ^ e
Modulus == Pow2(WordBits)
States == 0..(Modulus - 1)
ABits == WordBits - 1
BBits == WordBits - 2
Den == Pow2(ABits + BBits)

Abs(i) == IF i < 0 THEN 0 - i ELSE i

\* x >> k on a non-negative word
Shr(x, k) == x \div Pow2(k)

\* one word of the core generator: the new state, which is also the word
genrand(st) == (5 * st + 3) % Modulus

\* A seed that folds the key into the state it finds.
seed_mix(st, a) == [st |-> (st + 7 * Abs(a) + 11) % Modulus, exc |-> "None"]

\* A seed that rejects negative keys instead of taking their magnitude.
seed_unsigned(st, a) ==
    IF a < 0 THEN [st |-> st, exc |-> "ValueError"]
    ELSE [st |-> (7 * a + 11) % Modulus, exc |-> "None"]

\* random.seed(a) for an integer a, on a generator whose state is st: the
\* key is abs(a), the new state is built from the key alone, and no
\* integer is refused
seed(st, a) == [st |-> (7 * Abs(a) + 11) % Modulus, exc |-> "None"]

\* random.random() with the shifts left out: the two words whole.
random_noshift(st) ==
    LET x == genrand(st)
        y == genrand(x)
    IN  [val |-> x * Pow2(BBits) + y, st |-> y, exc |-> "None"]

\* random.random(): two words, the first shifted to ABits bits and the
\* second to BBits bits, joined into the numerator of a fraction over Den.
random(st) ==
    LET x == genrand(st)
        y == genrand(x)
        a == Shr(x, WordBits - ABits)
        b == Shr(y, WordBits - BBits)
    IN  [val |-> a * Pow2(BBits) + b, st |-> y, exc |-> "None"]

\* 0 <= v < 1 for a float given by its numerator over Den
InUnit(v) == 0 <= v /\ v < Den

\* range(n) that counts by magnitude.
range_abs(n) == [i \in 1..Abs(n) |-> i - 1]

\* range(n) that includes its stop value.
range_incl(n) == [i \in 1..(IF n >= 0 THEN n + 1 ELSE 0) |-> i - 1]

\* range(n): 0, 1, ..., n-1; empty for n <= 0, never an error
range(n) == [i \in 1..(IF n > 0 THEN n ELSE 0) |-> i - 1]

RECURSIVE Collect(_, _, _)
\* the body of the comprehension: one random.random() for each element of
\* rng, appended in iteration order; acc is the list so far
Collect(st, rng, acc) ==
    IF rng = <<>> THEN [out |-> acc, st |-> st, exc |-> "None"]
    ELSE LET d == random(st)
         IN  Collect(d.st, Tail(rng), Append(acc, d.val))

RECURSIVE CollectFront(_, _, _)
\* Collect with each value put in front of the list so far.
CollectFront(st, rng, acc) ==
    IF rng = <<>> THEN [out |-> acc, st |-> st, exc |-> "None"]
    ELSE LET d == random(st)
         IN  CollectFront(d.st, Tail(rng), <<d.val>> \o acc)

\* A comprehension that builds its list front to back.
ListComp_front(st, n) == CollectFront(st, range(n), <<>>)

\* A comprehension that draws from a private copy of the generator and
\* leaves the shared one where it was.
ListComp_copy(st, n) == [Collect(st, range(n), <<>>) EXCEPT !.st = st]

\* [random.random() for _ in range(n)]
ListComp(st, n) == Collect(st, range(n), <<>>)

\* ------------------------------------------------------------------ state
VARIABLES
    count,     \* notebook: kernel -> execution count of the cell to run next
    inst,      \* notebook: kernel -> state of its process's generator
    fresh,     \* notebook: kernel -> <<s>> once seeded with s
    r,         \* notebook: kernel -> the name r
    r2,        \* notebook: kernel -> the name r2
    same,      \* notebook: kernel -> Out of the cell r == r2
    gen,       \* one process: state of its module-global generator
    cur,       \* one process: <<s>> once seeded with s
    parts,     \* one process: results returned since the last seed, in order
    run,       \* one process: the current run of bare random.random() calls
    last,      \* one process: the most recent call and what it returned
    mine       \* one process: caller -> own seed and the values handed to it

vars == <<count, inst, fresh, r, r2, same, gen, cur, parts, run, last, mine>>
nbVars == <<count, inst, fresh, r, r2, same>>
apiVars == <<gen, cur, parts, run, last, mine>>

Undefined == [def |-> FALSE, val |-> <<>>, from |-> <<>>]
NoOut == [def |-> FALSE, val |-> FALSE]
Imported == [op |-> "import", arg |-> 0, out |-> <<>>, exc |-> "None", pre |-> 0]
NoCaller == [seed |-> <<>>, seq |-> <<>>]

\* execution counts of the four code cells, and the count after the last
FirstCell == 8
DrawCell == 9
ReseedCell == 10
CompareCell == 11
Finished == CompareCell + 1

\* ------------------------------------------------------- notebook cells
\* Two kernels (yours and a friend's) run the notebook from the top.
\* import random leaves each generator seeded from the operating system.
Init ==
    /\ count = [k \in Kernels |-> FirstCell]
    /\ inst \in [Kernels -> States]
    /\ fresh = [k \in Kernels |-> <<>>]
    /\ r = [k \in Kernels |-> Undefined]
    /\ r2 = [k \in Kernels |-> Undefined]
    /\ same = [k \in Kernels |-> NoOut]
    /\ gen = 0
    /\ cur = <<>>
    /\ parts = <<>>
    /\ run = [base |-> 0, acc |-> <<>>]
    /\ last = Imported
    /\ mine = [c \in Callers |-> NoCaller]

\* In [8]: import random; random.seed(s)
CellSeed(k, s) ==
    /\ count[k] = FirstCell
    /\ count' = [count EXCEPT ![k] = DrawCell]
    /\ inst' = [inst EXCEPT ![k] = seed(inst[k], s).st]
    /\ fresh' = [fresh EXCEPT ![k] = <<s>>]
    /\ UNCHANGED <<r, r2, same>>
    /\ UNCHANGED apiVars

\* In [9]: r = [random.random() for _ in range(n)]
CellDraw(k, n) ==
    LET d == ListComp(inst[k], n)
    IN  /\ count[k] = DrawCell
        /\ count' = [count EXCEPT ![k] = ReseedCell]
        /\ inst' = [inst EXCEPT ![k] = d.st]
        /\ r' = [r EXCEPT ![k] =
                   [def |-> TRUE, val |-> d.out, from |-> <<fresh[k][1], n>>]]
        /\ UNCHANGED <<fresh, r2, same>>
        /\ UNCHANGED apiVars

\* In [10]: random.seed(s); r2 = [random.random() for _ in range(n)]
CellReseedDraw(k, s, n) ==
    LET d == ListComp(seed(inst[k], s).st, n)
    IN  /\ count[k] = ReseedCell
        /\ count' = [count EXCEPT ![k] = CompareCell]
        /\ inst' = [inst EXCEPT ![k] = d.st]
        /\ fresh' = [fresh EXCEPT ![k] = <<s>>]
        /\ r2' = [r2 EXCEPT ![k] =
                    [def |-> TRUE, val |-> d.out, from |-> <<s, n>>]]
        /\ UNCHANGED <<r, same>>
        /\ UNCHANGED apiVars

\* In [11]: r == r2
CellCompare(k) ==
    /\ count[k] = CompareCell
    /\ count' = [count EXCEPT ![k] = Finished]
    /\ same' = [same EXCEPT ![k] = [def |-> TRUE, val |-> (r[k].val = r2[k].val)]]
    /\ UNCHANGED <<inst, fresh, r, r2>>
    /\ UNCHANGED apiVars

Next ==
    \/ \E k \in Kernels, s \in Seeds : CellSeed(k, s)
    \/ \E k \in Kernels, n \in Counts : CellDraw(k, n)
    \/ \E k \in Kernels, s \in Seeds, n \in Counts : CellReseedDraw(k, s, n)
    \/ \E k \in Kernels : CellCompare(k)

Spec == Init /\ [][Next]_vars

\* ------------------------------------------- the module-level functions
\* One process, one caller: any sequence of random.seed(s), random.random()
\* and [random.random() for _ in range(n)] on the module-global generator.
RECURSIVE Flatten(_)
Flatten(ps) == IF ps = <<>> THEN <<>> ELSE Head(ps) \o Flatten(Tail(ps))

Room(n) == Len(parts) < MaxParts /\ Len(Flatten(parts)) + n <= MaxLen

InitApi ==
    /\ count = [k \in Kernels |-> Finished]
    /\ inst = [k \in Kernels |-> 0]
    /\ fresh = [k \in Kernels |-> <<>>]
    /\ r = [k \in Kernels |-> Undefined]
    /\ r2 = [k \in Kernels |-> Undefined]
    /\ same = [k \in Kernels |-> NoOut]
    /\ gen \in States
    /\ cur = <<>>
    /\ parts = <<>>
    /\ run = [base |-> gen, acc |-> <<>>]
    /\ last = Imported
    /\ mine = [c \in Callers |-> NoCaller]

\* random.seed(s)
Seed(s) ==
    LET d == seed(gen, s)
    IN  /\ gen' = d.st
        /\ cur' = IF d.exc = "None" THEN <<s>> ELSE cur
        /\ parts' = IF d.exc = "None" THEN <<>> ELSE parts
        /\ run' = [base |-> d.st, acc |-> <<>>]
        /\ last' = [op |-> "seed", arg |-> s, out |-> <<>>, exc |-> d.exc,
                    pre |-> gen]
        /\ UNCHANGED mine
        /\ UNCHANGED nbVars

\* random.random()
Random ==
    LET d == random(gen)
    IN  /\ Room(1)
        /\ gen' = d.st
        /\ parts' = Append(parts, <<d.val>>)
        /\ run' = [run EXCEPT !.acc = Append(@, d.val)]
        /\ last' = [op |-> "random", arg |-> 0, out |-> <<d.val>>,
                    exc |-> d.exc, pre |-> gen]
        /\ UNCHANGED <<cur, mine>>
        /\ UNCHANGED nbVars

\* [random.random() for _ in range(n)]
Draw(n) ==
    LET d == ListComp(gen, n)
    IN  /\ Room(Abs(n))
        /\ gen' = d.st
        /\ parts' = Append(parts, d.out)
        /\ run' = [base |-> d.st, acc |-> <<>>]
        /\ last' = [op |-> "draw", arg |-> n, out |-> d.out, exc |-> d.exc,
                    pre |-> gen]
        /\ UNCHANGED <<cur, mine>>
        /\ UNCHANGED nbVars

NextApi ==
    \/ \E s \in Seeds : Seed(s)
    \/ Random
    \/ \E n \in Args : Draw(n)

SpecApi == InitApi /\ [][NextApi]_vars

\* ------------------------------------------------ callers in one process
\* Two callers in one process (threads, or two libraries that both import
\* random).  random.seed and random.random are bound to one hidden
\* generator, so every call by either caller acts on the same state.
InitShared ==
    /\ count = [k \in Kernels |-> Finished]
    /\ inst = [k \in Kernels |-> 0]
    /\ fresh = [k \in Kernels |-> <<>>]
    /\ r = [k \in Kernels |-> Undefined]
    /\ r2 = [k \in Kernels |-> Undefined]
    /\ same = [k \in Kernels |-> NoOut]
    /\ gen \in States
    /\ cur = <<>>
    /\ parts = <<>>
    /\ run = [base |-> 0, acc |-> <<>>]
    /\ last = Imported
    /\ mine = [c \in Callers |-> NoCaller]

\* caller c: random.seed(s)
CallerSeed(c, s) ==
    /\ gen' = seed(gen, s).st
    /\ mine' = [mine EXCEPT ![c] = [seed |-> <<s>>, seq |-> <<>>]]
    /\ UNCHANGED <<cur, parts, run, last>>
    /\ UNCHANGED nbVars

\* caller c, already seeded: [random.random() for _ in range(n)]
CallerDraw(c, n) ==
    LET d == ListComp(gen, n)
    IN  /\ mine[c].seed # <<>>
        /\ Len(mine[c].seq) + n <= MaxN
        /\ gen' = d.st
        /\ mine' = [mine EXCEPT ![c].seq = @ \o d.out]
        /\ UNCHANGED <<cur, parts, run, last>>
        /\ UNCHANGED nbVars

NextShared ==
    \/ \E c \in Callers, s \in Seeds : CallerSeed(c, s)
    \/ \E c \in Callers, n \in Counts : CallerDraw(c, n)

SpecShared == InitShared /\ [][NextShared]_vars

\* ----------------------------------------------------------- properties
\* the state every seed(g, s) reaches, whatever g was
Seeded(g, s) == seed(g, s).st

\* C1: two kernels that seeded with the same s and then drew the same
\* count n hold equal lists, element by element, whatever state their
\* generators were in before the seed.
C1_SameSeedSameDraws ==
    \A k1 \in Kernels, k2 \in Kernels :
        /\ (r[k1].def /\ r[k2].def /\ r[k1].from = r[k2].from)
              => r[k1].val = r[k2].val
        /\ (r2[k1].def /\ r2[k2].def /\ r2[k1].from = r2[k2].from)
              => r2[k1].val = r2[k2].val

C1_Witness ==
    /\ r[1].def /\ r[2].def
    /\ r[1].from = r[2].from
    /\ Len(r[1].val) = MaxN
    /\ r[1].val = r[2].val

\* C2: on one kernel, the list drawn after the first seed and the list
\* drawn after re-seeding with the same seed and count are equal, and the
\* cell r == r2 then shows True.
C2_ReseedRepeats ==
    \A k \in Kernels :
        (r[k].def /\ r2[k].def /\ r[k].from = r2[k].from)
            => /\ r[k].val = r2[k].val
               /\ same[k].def => same[k].val

C2_Witness ==
    \E k \in Kernels :
        /\ same[k].def /\ same[k].val
        /\ r[k].from = r2[k].from
        /\ Len(r2[k].val) = MaxN

C4_LengthAndRange ==
    cur # <<>> =>
        /\ (last.op = "draw" /\ last.arg >= 0) => Len(last.out) = last.arg
        /\ last.op \in {"draw", "random"}
              => \A i \in 1..Len(last.out) : InUnit(last.out[i])

C4_Witness ==
    cur # <<>> /\ last.op = "draw" /\ last.arg = MaxN /\ Len(last.out) = MaxN

\* C5: the values collected by successive random.random() calls, and the
\* state they leave, are what one comprehension of that many draws gives
\* from the state the calls started in.
C5_DrawIsRepeatedNext ==
    LET d == ListComp(run.base, Len(run.acc))
    IN  d.out = run.acc /\ d.st = gen

C5_Witness ==
    /\ last.op = "random"
    /\ Len(run.acc) >= 2
    /\ run.acc[1] # run.acc[2]

\* C6: a draw of 0 values returns the empty list and raises nothing.
C6_DrawZeroEmpty ==
    (last.op = "draw" /\ last.arg = 0) => (last.out = <<>> /\ last.exc = "None")

C6_Witness == last.op = "draw" /\ last.arg = 0 /\ cur # <<>>

\* C7 (as claimed): each caller's values are the ones its own seed gives
\* to a generator nobody else touches.
C7_CallersIsolated ==
    \A c \in Callers :
        mine[c].seed # <<>> =>
            mine[c].seq = ListComp(Seeded(gen, mine[c].seed[1]), Len(mine[c].seq)).out

\* C8: seeding with any integer, random.random() and a draw of n >= 0 raise
\* nothing, and the seed takes effect.
C8_NoErrors ==
    /\ (last.op \in {"seed", "random"} \/ (last.op = "draw" /\ last.arg >= 0))
          => last.exc = "None"
    /\ last.op = "seed" => cur = <<last.arg>>

C8_Witness == last.op = "seed" /\ last.arg < 0 /\ last.exc = "None"

\* C10: the results returned since a seed, joined in order, are what one
\* comprehension of their total length gives right after that seed, and
\* the generator is in the state that comprehension leaves.
C10_StreamContinues ==
    cur # <<>> =>
        \A g \in States :
            LET all == Flatten(parts)
                d == ListComp(Seeded(g, cur[1]), Len(all))
            IN  all = d.out /\ gen = d.st

C10_Witness ==
    /\ cur # <<>>
    /\ last.op = "draw"
    /\ Len(parts) = 2
    /\ Len(parts[1]) = 2 /\ Len(parts[2]) = 2
====
